---- MODULE Spec2Model ----
(***************************************************************************)
(* Cardify (src/cardify.py): the card store, the editor widget, the card   *)
(* navigation handlers, the autosave timer, title and tags extraction, the *)
(* texts made by the preview, the markdown export and the PDF export, the  *)
(* geometry of the preview rectangle and of the PDF page, and the settings *)
(* with their file.                                                        *)
(*                                                                         *)
(* Texts are sequences of one-character strings, so that stripping, line   *)
(* splitting and the heading pattern are computed character by character.  *)
(* The card index is 0-based as in the source; cards[i + 1] is the record  *)
(* the source calls self.cards[i].                                         *)
(***************************************************************************)
EXTENDS Integers, Sequences, FiniteSets, TLC

VARIABLES
    cards,               \* self.cards: sequence of [front, back, title]
    current_card_index,  \* self.current_card_index (0-based)
    current_side,        \* self.current_side: "front" or "back"
    markdown_text,       \* content of the self.markdown_text widget, without
                         \* the final newline the widget always appends
    previewed,           \* what the last update_preview call has read: the
                         \* editor text and the side
    autosave_pending,    \* number of autosave callbacks waiting in the event loop
    lastOp,              \* history: the event handled last and its argument
    edits,               \* history: how many times the user has edited the text
    exIn,                \* title-extraction run: the input text
    exTitle,             \* title-extraction run: the returned title
    exPc,                \* the run's position: "idle", "start", "done", or the
                         \* name of the function that has produced docOut
    docSide,             \* document run: the side being edited
    docOther,            \* document run: the stored text of the other side
    docOut,              \* document run: what the function has produced
    card_size,           \* self.card_size: "3x5", "4x6" or "5x7"
    card_orientation,    \* self.card_orientation: "portrait" or "landscape"
    canvas_size,         \* << winfo_width(), winfo_height() >> of the preview canvas
    preview,             \* the card rectangle on the canvas, if one is drawn
    preview_pending,     \* update_preview callbacks waiting in the event loop
    pdf_page,            \* the page size of the PDF written last, if any
    card_theme,          \* self.card_theme: "light" or "dark"
    content_font_size,   \* self.content_font_size
    title_font_size,     \* self.title_font_size
    tags_font_size,      \* self.tags_font_size
    show_side_indicator, \* self.show_side_indicator
    config_file,         \* the settings file at get_config_path()
    config_write,        \* what the file system does to a write of that file
    settings_loaded      \* whether __init__ has got past load_settings()

vars == << cards, current_card_index, current_side, markdown_text, previewed,
           autosave_pending, lastOp, edits, exIn, exTitle, exPc,
           docSide, docOther, docOut,
           card_size, card_orientation, canvas_size, preview, preview_pending,
           pdf_page, card_theme, content_font_size, title_font_size,
           tags_font_size, show_side_indicator, config_file, config_write,
           settings_loaded >>

appVars == << cards, current_card_index, current_side, markdown_text,
              previewed, autosave_pending, lastOp, edits >>

exVars == << exIn, exTitle, exPc >>

docVars == << docSide, docOther, docOut >>

viewVars == << card_size, card_orientation, canvas_size, preview,
               preview_pending, pdf_page, card_theme, content_font_size,
               title_font_size, tags_font_size, show_side_indicator,
               config_file >>

\* the file system's behaviour and the position of the constructor
envVars == << config_write, settings_loaded >>

\* the variables of the runs of single functions, which the events of the
\* application leave alone
runVars == << exVars, docVars, viewVars, envVars >>

(***************************************************************************)
(* Bounds                                                                  *)
(***************************************************************************)
\* new_card is not taken once the list holds this many cards
MaxCards == 2

\* the user edits the text at most this many times
MaxEdits == 1

\* a free text of the document runs has at most this many lines
MaxDocLines == 3

\* no further redraw is requested on an unsized canvas once this many
\* update_preview callbacks are waiting
MaxPending == 2

\* an input of the title-extraction run has at most this many lines
MaxLines == 3

(***************************************************************************)
(* Literal texts of the source                                             *)
(***************************************************************************)
NL == "\n"

SP == " "

default_front ==
    <<
       "#", " ", "S", "a", "m", "p", "l", "e", " ", "C", "a", "r",
       "d", "\n", "\n", "T", "h", "i", "s", " ", "i", "s", " ", "t",
       "h", "e", " ", "f", "r", "o", "n", "t", " ", "o", "f", " ",
       "a", " ", "s", "a", "m", "p", "l", "e", " ", "i", "n", "d",
       "e", "x", " ", "c", "a", "r", "d", " ", "c", "r", "e", "a",
       "t", "e", "d", " ", "w", "i", "t", "h", " ", "*", "*", "C",
       "a", "r", "d", "i", "f", "y", "*", "*", ".", "\n", "\n", "-",
       " ", "U", "s", "e", " ", "m", "a", "r", "k", "d", "o", "w",
       "n", " ", "f", "o", "r", "m", "a", "t", "t", "i", "n", "g",
       "\n", "-", " ", "C", "r", "e", "a", "t", "e", " ", "b", "e",
       "a", "u", "t", "i", "f", "u", "l", " ", "c", "a", "r", "d",
       "s", "\n", "-", " ", "E", "x", "p", "o", "r", "t", " ", "t",
       "o", " ", "P", "D", "F", "\n", "-", " ", "A", "d", "d", " ",
       "c", "o", "n", "t", "e", "n", "t", " ", "t", "o", " ", "b",
       "o", "t", "h", " ", "s", "i", "d", "e", "s", "\n", "\n", "T",
       "a", "g", "s", ":", " ", "#", "s", "a", "m", "p", "l", "e",
       " ", "#", "c", "a", "r", "d", "i", "f", "y", " ", "#", "m",
       "a", "r", "k", "d", "o", "w", "n" >>

default_back == << >>

SampleCardTitle ==
    << "S", "a", "m", "p", "l", "e", " ", "C", "a", "r", "d" >>

new_card_front ==
    <<
       "#", " ", "N", "e", "w", " ", "C", "a", "r", "d", "\n", "\n",
       "C", "o", "n", "t", "e", "n", "t", " ", "g", "o", "e", "s",
       " ", "h", "e", "r", "e", ".", ".", ".", "\n", "\n", "T", "a",
       "g", "s", ":", " ", "#", "n", "e", "w" >>

NewCardTitle ==
    << "N", "e", "w", " ", "C", "a", "r", "d" >>

UntitledCard ==
    << "U", "n", "t", "i", "t", "l", "e", "d", " ", "C", "a", "r", "d" >>

PrintWord ==
    << "p", "r", "i", "n", "t" >>

(***************************************************************************)
(* Python str and re operations on character sequences                     *)
(***************************************************************************)
\* the characters str.strip() removes, among those that can occur in a text
Whitespace == { " ", "\n", "\t", "\r" }

\* s.strip(): s from its first to its last character that is no whitespace
strip(s) ==
    IF \A i \in 1..Len(s) : s[i] \in Whitespace
    THEN << >>
    ELSE LET first == CHOOSE i \in 1..Len(s) :
                          s[i] \notin Whitespace
                          /\ \A j \in 1..(i - 1) : s[j] \in Whitespace
             last == CHOOSE i \in 1..Len(s) :
                         s[i] \notin Whitespace
                         /\ \A j \in (i + 1)..Len(s) : s[j] \in Whitespace
         IN  SubSeq(s, first, last)

endswith(s, suffix) ==
    /\ Len(s) >= Len(suffix)
    /\ SubSeq(s, Len(s) - Len(suffix) + 1, Len(s)) = suffix

\* s.split('\n'): the lines of s, at least one, without their newlines
RECURSIVE split_lines(_)
split_lines(s) ==
    IF \A i \in 1..Len(s) : s[i] # NL
    THEN << s >>
    ELSE LET k == CHOOSE i \in 1..Len(s) :
                      s[i] = NL /\ \A j \in 1..(i - 1) : s[j] # NL
         IN  << SubSeq(s, 1, k - 1) >> \o split_lines(SubSeq(s, k + 1, Len(s)))

\* re.search(r'^# (.+)$', s, re.MULTILINE).
\* "^" matches at the start of s and after each newline.
at_line_start(s, p) == p = 1 \/ s[p - 1] = NL

\* "# " and one character that "." accepts (any but a newline) lie at p
title_prefix_at(s, p) ==
    /\ p + 2 <= Len(s)
    /\ s[p] = "#"
    /\ s[p + 1] = SP
    /\ s[p + 2] # NL

\* the positions of s where the pattern matches
title_matches(s) ==
    { p \in 1..Len(s) : at_line_start(s, p) /\ title_prefix_at(s, p) }

\* ".+" is greedy: from q it runs to the last character before the next
\* newline or the end of s, where "$" matches
dot_plus_end(s, q) ==
    CHOOSE e \in q..Len(s) :
        /\ \A j \in q..e : s[j] # NL
        /\ e = Len(s) \/ s[e + 1] = NL

\* group(1) of the match at position m, stripped
title_group(s, m) == strip(SubSeq(s, m + 2, dot_plus_end(s, m + 2)))

\* the title of the last match instead of the first
extract_title_mut_last(markdown_content) ==
    LET matches == title_matches(markdown_content)
    IN  IF matches = {}
        THEN UntitledCard
        ELSE title_group(markdown_content,
                         CHOOSE p \in matches : \A q \in matches : q <= p)

\* the pattern without its "^": a match may start inside a line
extract_title_mut_unanchored(markdown_content) ==
    LET matches == { p \in 1..Len(markdown_content) :
                       title_prefix_at(markdown_content, p) }
    IN  IF matches = {}
        THEN UntitledCard
        ELSE title_group(markdown_content,
                         CHOOSE p \in matches : \A q \in matches : p <= q)

\* extract_title: re.search returns the leftmost match; the title is its
\* group(1), stripped, or the default when nothing matches
extract_title(markdown_content) ==
    LET matches == title_matches(markdown_content)
    IN  IF matches = {}
        THEN UntitledCard
        ELSE title_group(markdown_content,
                         CHOOSE p \in matches : \A q \in matches : p <= q)

\* s[p..] begins with the literal lit
starts_at(s, p, lit) ==
    /\ p + Len(lit) - 1 <= Len(s)
    /\ SubSeq(s, p, p + Len(lit) - 1) = lit

HeadingPrefix == << "#", " " >>

TagsPrefix == << "T", "a", "g", "s", ":", " " >>

\* re.search(r'^Tags: (.+)$', s, re.MULTILINE): the positions where it matches
tags_matches(s) ==
    { p \in 1..Len(s) :
        /\ at_line_start(s, p)
        /\ starts_at(s, p, TagsPrefix)
        /\ p + 6 <= Len(s)
        /\ s[p + 6] # NL }

\* extract_tags: group(1) of the leftmost match, stripped, or the empty text
extract_tags(markdown_content) ==
    LET matches == tags_matches(markdown_content)
    IN  IF matches = {}
        THEN << >>
        ELSE LET m == CHOOSE p \in matches : \A q \in matches : p <= q
             IN  strip(SubSeq(markdown_content, m + 6,
                              dot_plus_end(markdown_content, m + 6)))

\* s.replace(old, "", 1): s without the first occurrence of old
replace_first(s, old) ==
    LET occ == { p \in 1..Len(s) : starts_at(s, p, old) }
    IN  IF occ = {}
        THEN s
        ELSE LET p == CHOOSE x \in occ : \A y \in occ : x <= y
             IN  SubSeq(s, 1, p - 1) \o SubSeq(s, p + Len(old), Len(s))

\* '\n'.join(ls) for a list of at least one line
RECURSIVE join_lines(_)
join_lines(ls) ==
    IF Len(ls) = 1 THEN ls[1] ELSE ls[1] \o << NL >> \o join_lines(Tail(ls))

\* re.sub('^' + re.escape(lit) + '$', '', s, flags=re.MULTILINE) for a literal
\* without newline: every line that is exactly lit becomes the empty line
sub_line(s, lit) ==
    LET ls == split_lines(s)
    IN  join_lines([ i \in 1..Len(ls) |-> IF ls[i] = lit THEN << >> ELSE ls[i] ])

\* re.sub(r'\n{3,}', '\n\n', s): a run of three or more newlines becomes two
RECURSIVE collapse_newlines(_)
collapse_newlines(s) ==
    IF Len(s) < 3
    THEN s
    ELSE IF s[1] = NL /\ s[2] = NL /\ s[3] = NL
         THEN collapse_newlines(Tail(s))
         ELSE << s[1] >> \o collapse_newlines(Tail(s))

\* re.sub(d + r'(.*?)' + d, open + r'\1' + close, s) for a delimiter d: from
\* the left, d followed by the nearest d on the same line encloses a group
RECURSIVE sub_delimited(_, _, _, _)
sub_delimited(s, d, open, close) ==
    IF s = << >>
    THEN << >>
    ELSE LET n == Len(d)
             closers == { q \in (n + 1)..Len(s) :
                            /\ starts_at(s, q, d)
                            /\ \A j \in (n + 1)..(q - 1) : s[j] # NL }
         IN  IF starts_at(s, 1, d) /\ closers # {}
             THEN LET q == CHOOSE x \in closers : \A y \in closers : x <= y
                  IN  open \o SubSeq(s, n + 1, q - 1) \o close
                        \o sub_delimited(SubSeq(s, q + n, Len(s)), d, open, close)
             ELSE << s[1] >> \o sub_delimited(Tail(s), d, open, close)

\* s.split('\n\n'): the pieces of s between non-overlapping blank separators
RECURSIVE split_paragraphs(_)
split_paragraphs(s) ==
    LET seps == { p \in 1..(Len(s) - 1) : s[p] = NL /\ s[p + 1] = NL }
    IN  IF seps = {}
        THEN << s >>
        ELSE LET k == CHOOSE x \in seps : \A y \in seps : x <= y
             IN  << SubSeq(s, 1, k - 1) >>
                   \o split_paragraphs(SubSeq(s, k + 2, Len(s)))

\* html.escape(s): the five characters with an entity are replaced by it
html_escape_char(c) ==
    CASE c = "&" -> << "&", "a", "m", "p", ";" >>
      [] c = "<" -> << "&", "l", "t", ";" >>
      [] c = ">" -> << "&", "g", "t", ";" >>
      [] c = "\"" -> << "&", "q", "u", "o", "t", ";" >>
      [] c = "'" -> << "&", "#", "x", "2", "7", ";" >>
      [] OTHER -> << c >>

RECURSIVE html_escape(_)
html_escape(s) ==
    IF s = << >> THEN << >> ELSE html_escape_char(s[1]) \o html_escape(Tail(s))

(***************************************************************************)
(* The Tk text widget                                                      *)
(***************************************************************************)
\* markdown_text.get("1.0", tk.END): the content and the widget's final newline
widget_get(text) == text \o << NL >>

\* markdown_text.delete("end-6c", "end"): "end" lies after the final newline,
\* so the range starts 5 characters before it. Tk keeps the final newline,
\* and when the range starts at the beginning of a line that is not the first
\* one it also removes the newline before the range.
widget_delete_end_6c(text) ==
    LET n == Len(text)
        first == IF n > 5 THEN n - 5 ELSE 0
        start == IF first > 0 /\ text[first] = NL THEN first - 1 ELSE first
    IN  SubSeq(text, 1, start)

(***************************************************************************)
(* Application state as the handlers see it                                *)
(***************************************************************************)
St ==
    [ cards |-> cards,
      current_card_index |-> current_card_index,
      current_side |-> current_side,
      markdown_text |-> markdown_text,
      previewed |-> previewed ]

Sides == { "front", "back" }

side_text(card, side) == IF side = "front" THEN card.front ELSE card.back

\* update_preview, as far as the texts go: it reads the editor text and the
\* side, and draws from them
update_preview_text(st) ==
    [ st EXCEPT !.previewed = [ markdown_content |-> st.markdown_text,
                                current_side |-> st.current_side ] ]

\* save_current_side_content: the stripped editor text goes into the current
\* side of the current card; the title is recomputed on the front side only
save_mut_title_always(st) ==
    IF st.cards = << >>
    THEN st
    ELSE LET content == strip(widget_get(st.markdown_text))
             title == extract_title(content)
             i == st.current_card_index + 1
         IN  IF st.current_side = "front"
             THEN [ st EXCEPT !.cards[i].front = content,
                              !.cards[i].title = title ]
             ELSE [ st EXCEPT !.cards[i].back = content,
                              !.cards[i].title = title ]

\* save_current_side_content that stores the text on both sides
save_mut_both_sides(st) ==
    IF st.cards = << >>
    THEN st
    ELSE LET content == strip(widget_get(st.markdown_text))
             title == extract_title(content)
             i == st.current_card_index + 1
         IN  IF st.current_side = "front"
             THEN [ st EXCEPT !.cards[i].front = content,
                              !.cards[i].back = content,
                              !.cards[i].title = title ]
             ELSE [ st EXCEPT !.cards[i].back = content,
                              !.cards[i].front = content ]

\* save_current_side_content that leaves the title as it is
save_mut_title_never(st) ==
    IF st.cards = << >>
    THEN st
    ELSE LET content == strip(widget_get(st.markdown_text))
             i == st.current_card_index + 1
         IN  IF st.current_side = "front"
             THEN [ st EXCEPT !.cards[i].front = content ]
             ELSE [ st EXCEPT !.cards[i].back = content ]

save_current_side_content(st) ==
    IF st.cards = << >>
    THEN st
    ELSE LET content == strip(widget_get(st.markdown_text))
             title == extract_title(content)
             i == st.current_card_index + 1
         IN  IF st.current_side = "front"
             THEN [ st EXCEPT !.cards[i].front = content,
                              !.cards[i].title = title ]
             ELSE [ st EXCEPT !.cards[i].back = content ]

\* switch_card_side without the save of the side that is left
switch_card_side_mut_nosave(st, side) ==
    IF side = st.current_side
    THEN st
    ELSE LET turned == [ st EXCEPT !.current_side = side ]
         IN  update_preview_text(
                 IF turned.cards # << >>
                 THEN [ turned EXCEPT !.markdown_text =
                            side_text(turned.cards[turned.current_card_index + 1], side) ]
                 ELSE turned)

\* switch_card_side without the reload of the editor
switch_card_side_mut_noload(st, side) ==
    IF side = st.current_side
    THEN st
    ELSE LET saved == IF st.cards # << >>
                      THEN save_current_side_content(st)
                      ELSE st
         IN  update_preview_text([ saved EXCEPT !.current_side = side ])

\* switch_card_side: nothing when already on that side; otherwise save, change
\* the side, load the stored text of the new side into the editor and redraw
switch_card_side(st, side) ==
    IF side = st.current_side
    THEN st
    ELSE LET saved == IF st.cards # << >>
                      THEN save_current_side_content(st)
                      ELSE st
             turned == [ saved EXCEPT !.current_side = side ]
         IN  update_preview_text(
                 IF turned.cards # << >>
                 THEN [ turned EXCEPT !.markdown_text =
                            side_text(turned.cards[turned.current_card_index + 1], side) ]
                 ELSE turned)

\* new_card without the switch to the front side
new_card_mut_keep_side(st) ==
    LET saved == IF st.cards # << >> THEN save_current_side_content(st) ELSE st
        appended == [ saved EXCEPT !.cards =
                        Append(@, [ front |-> new_card_front,
                                    back |-> << >>,
                                    title |-> NewCardTitle ]) ]
    IN  [ appended EXCEPT !.current_card_index = Len(appended.cards) - 1 ]

\* new_card with the record inserted at the head of the list
new_card_mut_prepend(st) ==
    LET saved == IF st.cards # << >> THEN save_current_side_content(st) ELSE st
        inserted == [ saved EXCEPT !.cards =
                        << [ front |-> new_card_front,
                             back |-> << >>,
                             title |-> NewCardTitle ] >> \o @ ]
        moved == [ inserted EXCEPT !.current_card_index = Len(inserted.cards) - 1 ]
    IN  switch_card_side(moved, "front")

\* new_card: save, append the default record, move to it, switch to the front
new_card(st) ==
    LET saved == IF st.cards # << >> THEN save_current_side_content(st) ELSE st
        appended == [ saved EXCEPT !.cards =
                        Append(@, [ front |-> new_card_front,
                                    back |-> << >>,
                                    title |-> NewCardTitle ]) ]
        moved == [ appended EXCEPT !.current_card_index = Len(appended.cards) - 1 ]
    IN  switch_card_side(moved, "front")

\* prev_card / next_card: bounded, save first, then load the current side of
\* the card moved to and redraw
load_current_side(st) ==
    update_preview_text(
        [ st EXCEPT !.markdown_text =
              side_text(st.cards[st.current_card_index + 1], st.current_side) ])

\* prev_card without its bound: Python reads cards[-1] as the last record
prev_card_mut_unbounded(st) ==
    LET saved == save_current_side_content(st)
        moved == [ saved EXCEPT !.current_card_index = @ - 1 ]
        i == IF moved.current_card_index < 0
             THEN Len(moved.cards) + moved.current_card_index + 1
             ELSE moved.current_card_index + 1
    IN  update_preview_text(
            [ moved EXCEPT !.markdown_text = side_text(moved.cards[i], moved.current_side) ])

\* prev_card that saves after the move, into the card moved to
prev_card_mut_save_late(st) ==
    IF st.current_card_index > 0
    THEN LET moved == [ st EXCEPT !.current_card_index = @ - 1 ]
         IN  load_current_side(save_current_side_content(moved))
    ELSE st

prev_card(st) ==
    IF st.current_card_index > 0
    THEN LET saved == save_current_side_content(st)
         IN  load_current_side([ saved EXCEPT !.current_card_index = @ - 1 ])
    ELSE st

\* next_card that wraps from the last card to the first
next_card_mut_wrap(st) ==
    LET saved == save_current_side_content(st)
    IN  load_current_side([ saved EXCEPT !.current_card_index =
                                (@ + 1) % Len(saved.cards) ])

next_card(st) ==
    IF st.current_card_index < Len(st.cards) - 1
    THEN LET saved == save_current_side_content(st)
         IN  load_current_side([ saved EXCEPT !.current_card_index = @ + 1 ])
    ELSE st

\* save_card: the explicit save
save_card(st) ==
    IF st.cards # << >> THEN save_current_side_content(st) ELSE st

\* the body of the autosave callback, without its re-scheduling
autosave(st) ==
    IF st.cards # << >> THEN save_current_side_content(st) ELSE st

\* generate_pdf / export_markdown: save first; the rest reads the card and
\* writes a file, and assigns nothing of the application state

\* generate_pdf that stores the editor text as the front, whatever the side
generate_pdf_mut_save_front(st) ==
    save_current_side_content([ st EXCEPT !.current_side = "front" ])

generate_pdf(st) == save_current_side_content(st)

export_markdown(st) == save_current_side_content(st)

\* on_text_change: the "print" trigger removes the end of the text and
\* exports; any other text is redrawn and saved
on_text_change(st) ==
    LET content == widget_get(st.markdown_text)
        drawn == update_preview_text(st)
    IN  IF endswith(strip(content), PrintWord)
        THEN generate_pdf([ st EXCEPT !.markdown_text = widget_delete_end_6c(@) ])
        ELSE IF drawn.cards # << >> THEN save_current_side_content(drawn) ELSE drawn

(***************************************************************************)
(* What update_preview, export_markdown and generate_pdf make of a text    *)
(***************************************************************************)
\* the bullet glyph U+2022 and the backtick U+0060, each one character of a text
Bullet == "U+2022"

Backtick == "U+0060"

\* update_preview: the content left when the title and the tags are taken
\* out of the widget's text by str.replace
preview_content(markdown_content) ==
    LET title == extract_title(markdown_content)
        tags == extract_tags(markdown_content)
        untitled == IF title # UntitledCard
                    THEN replace_first(markdown_content, HeadingPrefix \o title)
                    ELSE markdown_content
    IN  IF tags # << >>
        THEN replace_first(untitled, TagsPrefix \o tags)
        ELSE untitled

\* update_preview: a line that starts with "- " gets the bullet glyph
preview_bullets(lines) ==
    [ i \in 1..Len(lines) |->
        IF starts_at(lines[i], 1, << "-", " " >>)
        THEN << Bullet, " " >> \o SubSeq(lines[i], 3, Len(lines[i]))
        ELSE lines[i] ]

\* update_preview: the text drawn into the content area
preview_display(content) ==
    LET stripped == strip(content)
        bold == sub_delimited(stripped, << "*", "*" >>, << >>, << >>)
        italic == sub_delimited(bold, << "*" >>, << >>, << >>)
        code == sub_delimited(italic, << Backtick >>, << >>, << >>)
    IN  join_lines(preview_bullets(split_lines(code)))

\* export_markdown: a side's text without the line of the given title (when
\* remove_title holds), without the line of its tags, blank runs collapsed
markdown_clean(content, title, remove_title, tags) ==
    LET untitled == IF remove_title
                    THEN sub_line(content, HeadingPrefix \o title)
                    ELSE content
        untagged == IF tags # << >>
                    THEN sub_line(untitled, TagsPrefix \o tags)
                    ELSE untitled
    IN  collapse_newlines(untagged)

BackSideHeading ==
    << "#", "#", " ", "B", "a", "c", "k", " ", "S", "i", "d", "e" >>

\* export_markdown with the back section written for every card
export_markdown_mut_always_back(card) ==
    LET front_content == card.front
        back_content == strip(card.back)
        front_title == extract_title(front_content)
        front_tags == extract_tags(front_content)
        back_title == extract_title(back_content)
        back_tags == extract_tags(back_content)
        front_content_clean ==
            markdown_clean(front_content, front_title,
                           front_title # UntitledCard, front_tags)
        back_content_clean ==
            markdown_clean(back_content, back_title,
                           back_title = front_title, back_tags)
        front_part ==
            HeadingPrefix \o front_title \o << NL, NL >>
              \o strip(front_content_clean) \o << NL, NL >>
              \o TagsPrefix \o front_tags \o << NL >>
    IN  front_part \o << NL >> \o BackSideHeading \o << NL, NL >>
          \o strip(back_content_clean) \o << NL >>
          \o (IF back_tags # << >>
              THEN << NL >> \o TagsPrefix \o back_tags
              ELSE << >>)

\* export_markdown: the text written to the file for a saved card
export_markdown_content(card) ==
    LET front_content == card.front
        back_content == strip(card.back)
        front_title == extract_title(front_content)
        front_tags == extract_tags(front_content)
        include_back == Len(back_content) > 0
        back_title == extract_title(back_content)
        back_tags == extract_tags(back_content)
        front_content_clean ==
            markdown_clean(front_content, front_title,
                           front_title # UntitledCard, front_tags)
        back_content_clean ==
            markdown_clean(back_content, back_title,
                           back_title = front_title, back_tags)
        front_part ==
            HeadingPrefix \o front_title \o << NL, NL >>
              \o strip(front_content_clean) \o << NL, NL >>
              \o TagsPrefix \o front_tags \o << NL >>
    IN  IF include_back
        THEN front_part \o << NL >> \o BackSideHeading \o << NL, NL >>
               \o strip(back_content_clean) \o << NL >>
               \o (IF back_tags # << >>
                   THEN << NL >> \o TagsPrefix \o back_tags
                   ELSE << >>)
        ELSE front_part

\* the flowables generate_pdf hands to the document
Paragraph(text, style) == [ type |-> "Paragraph", style |-> style, text |-> text ]

Spacer == [ type |-> "Spacer", style |-> "", text |-> << >> ]

PageBreak == [ type |-> "PageBreak", style |-> "", text |-> << >> ]

\* generate_pdf: a side's text without the line of its title and of its tags
pdf_clean(content) ==
    LET title == extract_title(content)
        tags == extract_tags(content)
        untitled == IF title # UntitledCard
                    THEN sub_line(content, HeadingPrefix \o title)
                    ELSE content
    IN  IF tags # << >>
        THEN sub_line(untitled, TagsPrefix \o tags)
        ELSE untitled

\* generate_pdf: the paragraphs of one bullet block
pdf_bullet_lines(lines) ==
    LET item(line) ==
            IF starts_at(line, 1, << "-", " " >>)
            THEN << Paragraph(<< Bullet, " " >> \o strip(SubSeq(line, 3, Len(line))),
                              "content") >>
            ELSE << >>
        RECURSIVE walk(_)
        walk(k) == IF k > Len(lines) THEN << >> ELSE item(lines[k]) \o walk(k + 1)
    IN  walk(1)

\* generate_pdf: the inline markup of a paragraph that is no bullet block
pdf_markup(p) ==
    LET bold == sub_delimited(p, << "*", "*" >>,
                              << "<", "b", ">" >>, << "<", "/", "b", ">" >>)
        italic == sub_delimited(bold, << "*" >>,
                                << "<", "i", ">" >>, << "<", "/", "i", ">" >>)
    IN  sub_delimited(italic, << Backtick >>,
                      << "<", "c", "o", "d", "e", ">" >>,
                      << "<", "/", "c", "o", "d", "e", ">" >>)

\* generate_pdf: the content paragraphs of a cleaned side text
pdf_paragraphs(content_clean) ==
    LET ps == split_paragraphs(strip(content_clean))
        one(p) ==
            IF strip(p) = << >>
            THEN << >>
            ELSE IF starts_at(p, 1, << "-", " " >>)
                 THEN pdf_bullet_lines(split_lines(p))
                 ELSE << Paragraph(pdf_markup(p), "content") >>
        RECURSIVE walk(_)
        walk(k) == IF k > Len(ps) THEN << >> ELSE one(ps[k]) \o walk(k + 1)
    IN  walk(1)

\* generate_pdf: the elements of one side, without the page break
pdf_side_elements(content, letter, show_indicator) ==
    LET title == extract_title(content)
        tags == extract_tags(content)
    IN  (IF show_indicator
         THEN << Paragraph(<< letter >>, "side_indicator") >>
         ELSE << >>)
        \o (IF title # UntitledCard
            THEN << Paragraph(html_escape(title), "title"), Spacer >>
            ELSE << >>)
        \o pdf_paragraphs(pdf_clean(content))
        \o (IF tags # << >>
            THEN << Spacer, Paragraph(html_escape(tags), "tags") >>
            ELSE << >>)

\* generate_pdf with the page break behind every front side
pdf_elements_mut_always_break(card, show_indicator) ==
    LET front_content == card.front
        back_content == strip(card.back)
        front_elements == pdf_side_elements(front_content, "F", show_indicator)
    IN  front_elements \o << PageBreak >>
          \o pdf_side_elements(back_content, "B", show_indicator)

\* generate_pdf: all_elements for a saved card
pdf_elements(card, show_indicator) ==
    LET front_content == card.front
        back_content == strip(card.back)
        has_back_content == Len(back_content) > 0
        front_elements == pdf_side_elements(front_content, "F", show_indicator)
    IN  IF has_back_content
        THEN front_elements \o << PageBreak >>
               \o pdf_side_elements(back_content, "B", show_indicator)
        ELSE front_elements

(***************************************************************************)
(* Inputs                                                                  *)
(***************************************************************************)
\* texts the user leaves in the editor: a heading, a text with surrounding
\* whitespace and no heading, and a text ending in the word "print"
TypedTexts ==
    { << "#", " ", "A" >>,
      << " ", "b", "\n" >>,
      << "#", " ", "A", "\n", "p", "r", "i", "n", "t" >> }

Op(name, arg) == [ name |-> name, arg |-> arg ]

(***************************************************************************)
(* Initial state: after CardifyApp.__init__                                *)
(***************************************************************************)
AppInit ==
    /\ cards = << [ front |-> default_front,
                    back |-> default_back,
                    title |-> SampleCardTitle ] >>
    /\ current_card_index = 0
    /\ current_side = "front"
    /\ markdown_text = default_front
    /\ previewed = [ markdown_content |-> default_front, current_side |-> "front" ]
    /\ autosave_pending = 1
    /\ lastOp = Op("init", "")
    /\ edits = 0

NoOut ==
    [ title |-> << >>, tags |-> << >>, body |-> << >>, text |-> << >>,
      elements |-> << >> ]

DocIdle ==
    /\ docSide = "front"
    /\ docOther = << >>
    /\ docOut = NoOut

\* no rectangle on the canvas
NoPreview ==
    [ drawn |-> FALSE, card_ratio |-> << 0, 0 >>, card_width |-> 0,
      card_height |-> 0, x_offset |-> 0, y_offset |-> 0 ]

NoPage == [ written |-> FALSE, width |-> 0, height |-> 0 ]

\* the canvas of a window that is not on the screen yet reports 1 x 1
Unsized == << 1, 1 >>

\* no file at get_config_path()
AbsentFile == [ kind |-> "absent" ]

\* the default values __init__ sets; its update_preview has found the canvas
\* unsized and has left one retry waiting
DefaultSettings ==
    /\ content_font_size = 12
    /\ title_font_size = 16
    /\ tags_font_size = 10
    /\ card_orientation = "portrait"
    /\ card_theme = "light"
    /\ card_size = "3x5"
    /\ show_side_indicator = FALSE
    /\ canvas_size = Unsized
    /\ preview = NoPreview
    /\ preview_pending = 1
    /\ pdf_page = NoPage

\* the settings after __init__ on a machine without a settings file, where
\* load_settings has found nothing to read
ViewStart ==
    /\ DefaultSettings
    /\ config_file = AbsentFile
    /\ config_write = "ok"
    /\ settings_loaded = TRUE

Init ==
    /\ AppInit
    /\ exIn = << >>
    /\ exTitle = << >>
    /\ exPc = "idle"
    /\ DocIdle
    /\ ViewStart

(***************************************************************************)
(* Events                                                                  *)
(***************************************************************************)
Apply(st) ==
    LET after == st
    IN  /\ cards' = after.cards
        /\ current_card_index' = after.current_card_index
        /\ current_side' = after.current_side
        /\ markdown_text' = after.markdown_text
        /\ previewed' = after.previewed

\* the widget's own editing (typing, the format buttons, undo and redo)
Edit ==
    /\ edits < MaxEdits
    /\ edits' = edits + 1
    /\ \E t \in TypedTexts :
          /\ t # markdown_text
          /\ markdown_text' = t
    /\ lastOp' = Op("edit", "")
    /\ UNCHANGED << cards, current_card_index, current_side, previewed,
                    autosave_pending >>
    /\ UNCHANGED runVars

KeyRelease ==
    /\ Apply(on_text_change(St))
    /\ lastOp' = Op("on_text_change", "")
    /\ UNCHANGED << autosave_pending, edits >>
    /\ UNCHANGED runVars

NewCard ==
    /\ Len(cards) < MaxCards
    /\ Apply(new_card(St))
    /\ lastOp' = Op("new_card", "")
    /\ UNCHANGED << autosave_pending, edits >>
    /\ UNCHANGED runVars

SaveCard ==
    /\ Apply(save_card(St))
    /\ lastOp' = Op("save_card", "")
    /\ UNCHANGED << autosave_pending, edits >>
    /\ UNCHANGED runVars

PrevCard ==
    /\ Apply(prev_card(St))
    /\ lastOp' = Op("prev_card", "")
    /\ UNCHANGED << autosave_pending, edits >>
    /\ UNCHANGED runVars

NextCard ==
    /\ Apply(next_card(St))
    /\ lastOp' = Op("next_card", "")
    /\ UNCHANGED << autosave_pending, edits >>
    /\ UNCHANGED runVars

SwitchCardSide ==
    /\ \E side \in Sides :
          /\ Apply(switch_card_side(St, side))
          /\ lastOp' = Op("switch_card_side", side)
    /\ UNCHANGED << autosave_pending, edits >>
    /\ UNCHANGED runVars

\* callbacks the autosave callback schedules when it runs: root.after(30000, autosave)
autosave_reschedule_mut_none == 1 - 1

autosave_reschedule == 1

\* the timer fires: the callback leaves the queue, saves and schedules its successor
Autosave ==
    /\ autosave_pending > 0
    /\ lastOp' = Op("autosave", "")
    /\ autosave_pending' = (autosave_pending - 1) + autosave_reschedule
    /\ Apply(autosave(St))
    /\ UNCHANGED edits
    /\ UNCHANGED runVars

GeneratePdf ==
    /\ Apply(generate_pdf(St))
    /\ lastOp' = Op("generate_pdf", "")
    /\ UNCHANGED << autosave_pending, edits >>
    /\ UNCHANGED runVars

ExportMarkdown ==
    /\ Apply(export_markdown(St))
    /\ lastOp' = Op("export_markdown", "")
    /\ UNCHANGED << autosave_pending, edits >>
    /\ UNCHANGED runVars

Next ==
    \/ Edit
    \/ KeyRelease
    \/ NewCard
    \/ SaveCard
    \/ PrevCard
    \/ NextCard
    \/ SwitchCardSide
    \/ Autosave
    \/ GeneratePdf
    \/ ExportMarkdown

Spec == Init /\ [][Next]_vars

\* what becomes of an export after the save: the file dialog is cancelled,
\* the file is written, or the writing raises and the error is shown
ExportOutcomes == { "cancelled", "written", "failed" }

\* the exports with what becomes of them
GeneratePdfFile ==
    /\ Apply(generate_pdf(St))
    /\ \E outcome \in ExportOutcomes : lastOp' = Op("generate_pdf", outcome)
    /\ UNCHANGED << autosave_pending, edits >>
    /\ UNCHANGED runVars

ExportMarkdownFile ==
    /\ Apply(export_markdown(St))
    /\ \E outcome \in ExportOutcomes : lastOp' = Op("export_markdown", outcome)
    /\ UNCHANGED << autosave_pending, edits >>
    /\ UNCHANGED runVars

\* editing, navigation and exports
ExportNext ==
    \/ Edit
    \/ KeyRelease
    \/ NewCard
    \/ PrevCard
    \/ NextCard
    \/ SwitchCardSide
    \/ GeneratePdfFile
    \/ ExportMarkdownFile

ExportSpec == Init /\ [][ExportNext]_vars

\* the event loop dispatching a pending autosave callback: the step Autosave
\* as far as the timer and the history see it
AutosaveFires ==
    /\ autosave_pending > 0
    /\ lastOp' = Op("autosave", "")

\* the event loop runs a timer callback that is due
FairSpec == Spec /\ WF_lastOp(AutosaveFires)

(***************************************************************************)
(* Title extraction on its own: one call of extract_title on a text made   *)
(* of up to MaxLines lines                                                 *)
(***************************************************************************)
SampleLines ==
    { << "#", " ", "a" >>,
      << "#", " ", "b", " " >>,
      << "#", " ", " " >>,
      << "#", " " >>,
      << "#", "a" >>,
      << " ", "#", " ", "a" >>,
      << "b" >>,
      << >> }

ExInputs ==
    { join_lines(ls) : ls \in UNION { [1..n -> SampleLines] : n \in 1..MaxLines } }

ExInit ==
    /\ AppInit
    /\ exIn \in ExInputs
    /\ exTitle = << >>
    /\ exPc = "start"
    /\ DocIdle
    /\ ViewStart

ExtractTitle ==
    /\ exPc = "start"
    /\ exTitle' = extract_title(exIn)
    /\ exPc' = "done"
    /\ UNCHANGED exIn
    /\ UNCHANGED appVars
    /\ UNCHANGED docVars
    /\ UNCHANGED << viewVars, envVars >>

ExNext == ExtractTitle

ExSpec == ExInit /\ [][ExNext]_vars

(***************************************************************************)
(* The preview and the two exports on their own: one call of               *)
(* update_preview, export_markdown or generate_pdf with the text exIn in   *)
(* the editor of side docSide and the text docOther stored in the other    *)
(* side of the card                                                        *)
(***************************************************************************)
DocLines ==
    { << "#", " ", "a" >>,
      << "#", " ", "b", " " >>,
      << "T", "a", "g", "s", ":", " ", "x" >>,
      << "b" >>,
      << "b", "#", " ", "a" >>,
      << >> }

FreeTexts ==
    { join_lines(ls) : ls \in UNION { [1..n -> DocLines] : n \in 1..MaxDocLines } }

\* texts made of a heading line, a body and a tags line, with blank lines
\* between them
CardHeadings == { << "H", "i" >>, << "b", " " >> }

CardBodies ==
    { << "B", "o", "d", "y" >>,
      << "-", " ", "c", "\n", "-", " ", "d" >>,
      << "-", " ", "c", "\n", "g" >>,
      << "*", "e", "*", "\n", "\n", "f", "&" >> }

CardTags == { << "#", "x" >>, << " ", "y" >> }

card_text(t, body, g) ==
    HeadingPrefix \o t \o << NL, NL >> \o body \o << NL, NL >> \o TagsPrefix \o g

CardTexts ==
    { card_text(t, body, g) : t \in CardHeadings, body \in CardBodies, g \in CardTags }

DocTexts == FreeTexts \cup CardTexts

\* stored texts of the other side: none, a text with the heading "a", a
\* text that is only a tags line, a plain text, and the heading that spells
\* the default title
DocOthers ==
    { << >>,
      << "#", " ", "a", "\n", "b" >>,
      << "T", "a", "g", "s", ":", " ", "y" >>,
      << "b" >>,
      HeadingPrefix \o UntitledCard }

DocInit ==
    /\ AppInit
    /\ exIn \in DocTexts
    /\ exTitle = << >>
    /\ exPc = "start"
    /\ docSide \in Sides
    /\ docOther \in DocOthers
    /\ docOut = NoOut
    /\ ViewStart

\* the card as the save at the head of both exports leaves it
doc_card ==
    LET front == IF docSide = "front" THEN << >> ELSE docOther
        back == IF docSide = "back" THEN << >> ELSE docOther
        st == [ cards |-> << [ front |-> front, back |-> back,
                               title |-> extract_title(front) ] >>,
                current_card_index |-> 0,
                current_side |-> docSide,
                markdown_text |-> exIn ]
    IN  save_current_side_content(st).cards[1]

DocPreview ==
    /\ exPc = "start"
    /\ LET markdown_content == widget_get(exIn)
           content == preview_content(markdown_content)
       IN  docOut' = [ title |-> extract_title(markdown_content),
                       tags |-> extract_tags(markdown_content),
                       body |-> strip(content),
                       text |-> preview_display(content),
                       elements |-> << >> ]
    /\ exPc' = "update_preview"
    /\ UNCHANGED << exIn, exTitle, docSide, docOther >>
    /\ UNCHANGED appVars
    /\ UNCHANGED << viewVars, envVars >>

DocExportMarkdown ==
    /\ exPc = "start"
    /\ LET card == doc_card
           front_title == extract_title(card.front)
           content == side_text(card, docSide)
           title == extract_title(content)
           tags == extract_tags(content)
           remove_title == IF docSide = "front"
                           THEN front_title # UntitledCard
                           ELSE title = front_title
       IN  docOut' = [ title |-> title,
                       tags |-> tags,
                       body |-> strip(markdown_clean(content, title,
                                                     remove_title, tags)),
                       text |-> export_markdown_content(card),
                       elements |-> << >> ]
    /\ exPc' = "export_markdown"
    /\ UNCHANGED << exIn, exTitle, docSide, docOther >>
    /\ UNCHANGED appVars
    /\ UNCHANGED << viewVars, envVars >>

DocGeneratePdf ==
    /\ exPc = "start"
    /\ \E show_indicator \in BOOLEAN :
          LET card == doc_card
              content == side_text(card, docSide)
          IN  docOut' = [ title |-> extract_title(content),
                          tags |-> extract_tags(content),
                          body |-> strip(pdf_clean(content)),
                          text |-> << >>,
                          elements |-> pdf_elements(card, show_indicator) ]
    /\ exPc' = "generate_pdf"
    /\ UNCHANGED << exIn, exTitle, docSide, docOther >>
    /\ UNCHANGED appVars
    /\ UNCHANGED << viewVars, envVars >>

DocNext ==
    \/ DocPreview
    \/ DocExportMarkdown
    \/ DocGeneratePdf

DocSpec == DocInit /\ [][DocNext]_vars

(***************************************************************************)
(* The card's geometry: the settings card_size and card_orientation, the   *)
(* rectangle update_preview draws and the page generate_pdf sets up        *)
(***************************************************************************)
CardSizes == { "3x5", "4x6", "5x7" }

Orientations == { "portrait", "landscape" }

\* sizes the preview canvas takes once the window is on the screen
CanvasSizes ==
    { << 400, 300 >>, << 300, 400 >>, << 500, 300 >>, << 37, 53 >>,
      << 200, 1000 >> }

\* points per inch: reportlab.lib.pagesizes.inch
inch == 72

ViewSt ==
    [ card_size |-> card_size,
      card_orientation |-> card_orientation,
      card_theme |-> card_theme,
      content_font_size |-> content_font_size,
      title_font_size |-> title_font_size,
      tags_font_size |-> tags_font_size,
      show_side_indicator |-> show_side_indicator,
      config_file |-> config_file,
      config_write |-> config_write,
      canvas_size |-> canvas_size,
      preview |-> preview,
      preview_pending |-> preview_pending ]

\* update_preview: card_ratio as the fraction << numerator, denominator >>
preview_card_ratio(size, orientation) ==
    IF size = "3x5"
    THEN IF orientation = "portrait" THEN << 5, 3 >> ELSE << 3, 5 >>
    ELSE IF size = "4x6"
         THEN IF orientation = "portrait" THEN << 6, 4 >> ELSE << 4, 6 >>
         ELSE IF orientation = "portrait" THEN << 5, 3 >> ELSE << 3, 5 >>

\* update_preview: the rectangle fitted into a sized canvas; int() of the
\* non-negative products and quotients is the integer part
preview_rectangle(size, orientation, canvas) ==
    LET canvas_width == canvas[1]
        canvas_height == canvas[2]
        card_ratio == preview_card_ratio(size, orientation)
        wide == canvas_width * card_ratio[2] > canvas_height * card_ratio[1]
        card_height_w == (canvas_height * 9) \div 10
        card_width_w == (card_height_w * card_ratio[1]) \div card_ratio[2]
        card_width_t == (canvas_width * 9) \div 10
        card_height_t == (card_width_t * card_ratio[2]) \div card_ratio[1]
        card_width == IF wide THEN card_width_w ELSE card_width_t
        card_height == IF wide THEN card_height_w ELSE card_height_t
    IN  [ drawn |-> TRUE,
          card_ratio |-> card_ratio,
          card_width |-> card_width,
          card_height |-> card_height,
          x_offset |-> (canvas_width - card_width) \div 2,
          y_offset |-> (canvas_height - card_height) \div 2 ]

\* update_preview: the canvas is cleared; on an unsized canvas a retry is
\* scheduled and nothing is drawn, otherwise the rectangle is drawn
update_preview(vs) ==
    IF vs.canvas_size[1] <= 1 \/ vs.canvas_size[2] <= 1
    THEN [ vs EXCEPT !.preview = NoPreview,
                     !.preview_pending = @ + 1 ]
    ELSE [ vs EXCEPT !.preview = preview_rectangle(vs.card_size,
                                                   vs.card_orientation,
                                                   vs.canvas_size) ]

\* save_settings: the JSON object json.dump writes
settings_object(vs) ==
    [ content_font_size |-> vs.content_font_size,
      title_font_size |-> vs.title_font_size,
      tags_font_size |-> vs.tags_font_size,
      card_theme |-> vs.card_theme,
      card_orientation |-> vs.card_orientation,
      card_size |-> vs.card_size,
      show_side_indicator |-> vs.show_side_indicator ]

\* what a write of the settings file can come to: the file is written; the
\* directory cannot be made or open() fails, and the file stays as it was;
\* open() has emptied the file and the writing fails
WriteOutcomes == { "ok", "open_fails", "dump_fails" }

\* save_settings: the settings as a JSON object replace the file; a failure
\* is caught and reported
save_settings(vs) ==
    IF vs.config_write = "ok"
    THEN [ vs EXCEPT !.config_file = [ kind |-> "object",
                                        object |-> settings_object(vs) ] ]
    ELSE IF vs.config_write = "open_fails"
         THEN vs
         ELSE [ vs EXCEPT !.config_file = [ kind |-> "not_json" ] ]

\* dict.get(key, default)
get(settings, key, default) ==
    IF key \in DOMAIN settings THEN settings[key] ELSE default

\* load_settings that takes a file with a key missing for no file at all
load_settings_mut_all_or_nothing(vs) ==
    IF vs.config_file.kind # "object"
    THEN vs
    ELSE LET settings == vs.config_file.object
         IN  IF \E key \in DOMAIN settings_object(vs) : key \notin DOMAIN settings
             THEN vs
             ELSE update_preview(
                      [ vs EXCEPT
                          !.content_font_size = settings["content_font_size"],
                          !.title_font_size = settings["title_font_size"],
                          !.tags_font_size = settings["tags_font_size"],
                          !.card_theme = settings["card_theme"],
                          !.card_orientation = settings["card_orientation"],
                          !.card_size = settings["card_size"],
                          !.show_side_indicator = settings["show_side_indicator"] ])

\* load_settings: nothing without a file; a file that cannot be opened, is
\* not JSON or is not a JSON object raises inside the try and nothing is
\* assigned; from an object each setting takes its key or its default, and
\* the preview is redrawn
load_settings(vs) ==
    IF vs.config_file.kind # "object"
    THEN vs
    ELSE LET settings == vs.config_file.object
         IN  update_preview(
                 [ vs EXCEPT
                     !.content_font_size = get(settings, "content_font_size", 12),
                     !.title_font_size = get(settings, "title_font_size", 16),
                     !.tags_font_size = get(settings, "tags_font_size", 10),
                     !.card_theme = get(settings, "card_theme", "light"),
                     !.card_orientation = get(settings, "card_orientation", "portrait"),
                     !.card_size = get(settings, "card_size", "3x5"),
                     !.show_side_indicator = get(settings, "show_side_indicator", FALSE) ])

\* switch_orientation without the redraw
switch_orientation_mut_no_redraw(vs, orientation) ==
    IF orientation = vs.card_orientation
    THEN vs
    ELSE save_settings([ vs EXCEPT !.card_orientation = orientation ])

\* switch_orientation: nothing when already in that orientation; otherwise
\* set it, write the settings and redraw
switch_orientation(vs, orientation) ==
    IF orientation = vs.card_orientation
    THEN vs
    ELSE update_preview(save_settings([ vs EXCEPT !.card_orientation = orientation ]))

\* save_settings_dialog that writes the settings before it takes the dialog's
\* values
save_settings_dialog_mut_write_first(vs, size, orientation, theme, content_size, title_size, tags_size, show_indicator) ==
    update_preview(
        [ save_settings(vs) EXCEPT !.card_size = size,
                                   !.card_orientation = orientation,
                                   !.card_theme = theme,
                                   !.content_font_size = content_size,
                                   !.title_font_size = title_size,
                                   !.tags_font_size = tags_size,
                                   !.show_side_indicator = show_indicator ])

\* save_settings_dialog: take the dialog's values, write the settings, redraw
save_settings_dialog(vs, size, orientation, theme, content_size, title_size, tags_size, show_indicator) ==
    update_preview(save_settings(
        [ vs EXCEPT !.card_size = size,
                    !.card_orientation = orientation,
                    !.card_theme = theme,
                    !.content_font_size = content_size,
                    !.title_font_size = title_size,
                    !.tags_font_size = tags_size,
                    !.show_side_indicator = show_indicator ]))

\* generate_pdf: pagesize
pdf_pagesize(size, orientation) ==
    LET landscape_first ==
            IF size = "3x5" THEN << 5 * inch, 3 * inch >>
            ELSE IF size = "4x6" THEN << 6 * inch, 4 * inch >>
            ELSE IF size = "5x7" THEN << 7 * inch, 5 * inch >>
            ELSE << 5 * inch, 3 * inch >>
        width == IF orientation = "landscape"
                 THEN landscape_first[2] ELSE landscape_first[1]
        height == IF orientation = "landscape"
                  THEN landscape_first[1] ELSE landscape_first[2]
    IN  [ written |-> TRUE, width |-> width, height |-> height ]

ApplyView(vs) ==
    LET after == vs
    IN  /\ card_size' = after.card_size
        /\ card_orientation' = after.card_orientation
        /\ card_theme' = after.card_theme
        /\ content_font_size' = after.content_font_size
        /\ title_font_size' = after.title_font_size
        /\ tags_font_size' = after.tags_font_size
        /\ show_side_indicator' = after.show_side_indicator
        /\ config_file' = after.config_file
        /\ canvas_size' = after.canvas_size
        /\ preview' = after.preview
        /\ preview_pending' = after.preview_pending

\* a handler that redraws is taken on an unsized canvas only while fewer
\* than MaxPending retries are waiting
RedrawAllowed == canvas_size = Unsized => preview_pending < MaxPending

\* what the events of the geometry leave alone: the cards, the editor, the
\* autosave timer and the runs of single functions; a redraw reads the same
\* editor text and side again
notViewVars == << cards, current_card_index, current_side, markdown_text,
                 previewed, autosave_pending, edits, exVars, docVars,
                 envVars >>

\* the settings the events of the canvas and of the PDF leave alone
settingsVars == << card_size, card_orientation, card_theme, content_font_size,
                  title_font_size, tags_font_size, show_side_indicator,
                  config_file >>

ViewInit ==
    /\ AppInit
    /\ exIn = << >>
    /\ exTitle = << >>
    /\ exPc = "idle"
    /\ DocIdle
    /\ ViewStart

\* the window manager gives the canvas a size; no handler is bound to it
ResizeCanvas ==
    /\ \E size \in CanvasSizes :
          /\ size # canvas_size
          /\ canvas_size' = size
    /\ lastOp' = Op("resize", "")
    /\ UNCHANGED << settingsVars, preview, preview_pending, pdf_page >>
    /\ UNCHANGED notViewVars

\* a waiting update_preview callback runs
PreviewRetry ==
    /\ settings_loaded
    /\ preview_pending > 0
    /\ ApplyView(update_preview([ ViewSt EXCEPT !.preview_pending = @ - 1 ]))
    /\ lastOp' = Op("update_preview", "")
    /\ UNCHANGED pdf_page
    /\ UNCHANGED notViewVars

SwitchOrientation ==
    /\ settings_loaded
    /\ RedrawAllowed
    /\ \E orientation \in Orientations :
          /\ ApplyView(switch_orientation(ViewSt, orientation))
          /\ lastOp' = Op("switch_orientation", orientation)
    /\ UNCHANGED pdf_page
    /\ UNCHANGED notViewVars

\* the dialog confirmed with a card size and an orientation chosen, and the
\* other entries as the dialog has filled them in from the settings
SaveSettingsDialog ==
    /\ RedrawAllowed
    /\ \E size \in CardSizes, orientation \in Orientations :
          /\ ApplyView(save_settings_dialog(ViewSt, size, orientation,
                                            card_theme, content_font_size,
                                            title_font_size, tags_font_size,
                                            show_side_indicator))
          /\ lastOp' = Op("save_settings_dialog", size)
    /\ UNCHANGED pdf_page
    /\ UNCHANGED notViewVars

\* generate_pdf with a file chosen: the document is set up with the page size
PdfPage ==
    /\ pdf_page' = pdf_pagesize(card_size, card_orientation)
    /\ lastOp' = Op("generate_pdf", "written")
    /\ UNCHANGED << settingsVars, canvas_size, preview, preview_pending >>
    /\ UNCHANGED notViewVars

ViewNext ==
    \/ ResizeCanvas
    \/ PreviewRetry
    \/ SwitchOrientation
    \/ SaveSettingsDialog
    \/ PdfPage

ViewSpec == ViewInit /\ [][ViewNext]_vars

(***************************************************************************)
(* The settings and their file: the end of __init__, where load_settings   *)
(* reads whatever file there is, and then the settings dialog and the      *)
(* orientation buttons, which write the file                               *)
(***************************************************************************)
SettingKeys ==
    { "content_font_size", "title_font_size", "tags_font_size", "card_theme",
      "card_orientation", "card_size", "show_side_indicator" }

\* an object an earlier session has written, no value of it a default
SavedObject ==
    [ content_font_size |-> 20,
      title_font_size |-> 28,
      tags_font_size |-> 8,
      card_theme |-> "dark",
      card_orientation |-> "landscape",
      card_size |-> "4x6",
      show_side_indicator |-> TRUE ]

\* the key sets of the files: all keys, none, one key only, one key missing
FileKeySets ==
    { SettingKeys, { } }
      \cup { { key } : key \in SettingKeys }
      \cup { SettingKeys \ { key } : key \in SettingKeys }

\* the objects of the files: the saved object cut down to a key set, and the
\* saved object with a key the application does not know
ConfigObjects ==
    { [ key \in keys |-> SavedObject[key] ] : keys \in FileKeySets }
      \cup { SavedObject @@ [ window |-> "1200x700" ] }

\* what can be at get_config_path() when the application starts: nothing, a
\* file that cannot be opened, a file that is not JSON, a JSON value that is
\* not an object, an object
ConfigFiles ==
    { AbsentFile, [ kind |-> "unreadable" ], [ kind |-> "not_json" ],
      [ kind |-> "not_object" ] }
      \cup { [ kind |-> "object", object |-> object ] : object \in ConfigObjects }

\* what the user leaves in the dialog before confirming it
DialogEntries ==
    { [ name |-> "defaults", card_size |-> "3x5", orientation |-> "portrait",
        theme |-> "light", content_size |-> 12, title_size |-> 16,
        tags_size |-> 10, show_indicator |-> FALSE ],
      [ name |-> "large", card_size |-> "5x7", orientation |-> "landscape",
        theme |-> "dark", content_size |-> 20, title_size |-> 28,
        tags_size |-> 16, show_indicator |-> TRUE ],
      [ name |-> "small", card_size |-> "4x6", orientation |-> "portrait",
        theme |-> "dark", content_size |-> 8, title_size |-> 12,
        tags_size |-> 9, show_indicator |-> FALSE ] }

dialog_entry(name) == CHOOSE d \in DialogEntries : d.name = name

\* __init__ at line 96: the defaults are set, the first update_preview has
\* run, load_settings is about to be called
SettingsInit ==
    /\ AppInit
    /\ exIn = << >>
    /\ exTitle = << >>
    /\ exPc = "idle"
    /\ DocIdle
    /\ DefaultSettings
    /\ config_file \in ConfigFiles
    /\ config_write = "ok"
    /\ settings_loaded = FALSE

LoadSettings ==
    /\ ~settings_loaded
    /\ ApplyView(load_settings(ViewSt))
    /\ settings_loaded' = TRUE
    /\ lastOp' = Op("load_settings", "")
    /\ UNCHANGED << pdf_page, config_write >>
    /\ UNCHANGED << cards, current_card_index, current_side, markdown_text,
                    previewed, autosave_pending, edits, exVars, docVars >>

\* the window comes onto the screen and the canvas gets its first size
MapWindow ==
    /\ settings_loaded
    /\ canvas_size = Unsized
    /\ canvas_size' = << 400, 300 >>
    /\ lastOp' = Op("map", "")
    /\ UNCHANGED << settingsVars, preview, preview_pending, pdf_page >>
    /\ UNCHANGED notViewVars

\* the disk fills up, the directory loses or regains its permissions
ConfigWriteChanges ==
    /\ settings_loaded
    /\ \E outcome \in WriteOutcomes :
          /\ outcome # config_write
          /\ config_write' = outcome
    /\ lastOp' = Op("file_system", "")
    /\ UNCHANGED << viewVars, settings_loaded >>
    /\ UNCHANGED << cards, current_card_index, current_side, markdown_text,
                    previewed, autosave_pending, edits, exVars, docVars >>

\* the dialog confirmed with any of the entries
ConfirmSettings ==
    /\ settings_loaded
    /\ RedrawAllowed
    /\ \E d \in DialogEntries :
          /\ ApplyView(save_settings_dialog(ViewSt, d.card_size, d.orientation,
                                            d.theme, d.content_size,
                                            d.title_size, d.tags_size,
                                            d.show_indicator))
          /\ lastOp' = Op("save_settings_dialog", d.name)
    /\ UNCHANGED pdf_page
    /\ UNCHANGED notViewVars

SettingsNext ==
    \/ LoadSettings
    \/ MapWindow
    \/ ConfigWriteChanges
    \/ ConfirmSettings
    \/ SwitchOrientation
    \/ PreviewRetry

SettingsSpec == SettingsInit /\ [][SettingsNext]_vars

(***************************************************************************)
(* Properties                                                              *)
(***************************************************************************)
other_side(side) == IF side = "front" THEN "back" ELSE "front"

\* the events whose handler calls save_current_side_content
SavingOps ==
    { "on_text_change", "new_card", "save_card", "prev_card", "next_card",
      "switch_card_side", "autosave", "generate_pdf", "export_markdown" }

\* C1: in every reachable state the card list is not empty and the current
\* index lies in 0 .. count - 1.
C1_IndexInRange ==
    /\ Len(cards) >= 1
    /\ 0 <= current_card_index
    /\ current_card_index < Len(cards)

\* prev was pressed on the first card of a list of several cards
C1_Witness ==
    /\ lastOp.name = "prev_card"
    /\ Len(cards) > 1
    /\ current_card_index = 0

\* the step is a navigation transition that leaves a side: new-card, prev
\* above index 0, next below the last index, or a switch to the other side
LeavingStep ==
    \/ lastOp'.name = "new_card"
    \/ lastOp'.name = "prev_card" /\ current_card_index > 0
    \/ lastOp'.name = "next_card" /\ current_card_index < Len(cards) - 1
    \/ lastOp'.name = "switch_card_side" /\ lastOp'.arg # current_side

\* C2: each of these transitions stores the stripped editor text of the
\* moment of the event into the side being left, of the card at the index
\* before the transition.
C2_SaveBeforeLeaving ==
    [][ LeavingStep =>
          side_text(cards'[current_card_index + 1], current_side)
              = strip(markdown_text) ]_vars

\* prev has left a card whose side now holds the stripped typed text " b\n"
C2_Witness ==
    /\ lastOp.name = "prev_card"
    /\ current_card_index + 2 <= Len(cards)
    /\ markdown_text # << "b" >>
    /\ side_text(cards[current_card_index + 2], current_side) = << "b" >>

\* C3: right after new-card the appended record has the default front text,
\* an empty back and the title "New Card".
C3_NewRecordIsDefault ==
    lastOp.name = "new_card" =>
        cards[Len(cards)] = [ front |-> new_card_front,
                              back |-> << >>,
                              title |-> NewCardTitle ]

\* C4: new-card appends exactly one record at the end, moves the index to
\* the new last position and sets the side to front.
C4_NewCardAppends ==
    [][ lastOp'.name = "new_card" =>
          /\ Len(cards') = Len(cards) + 1
          /\ \A i \in 1..Len(cards) :
                i # current_card_index + 1 => cards'[i] = cards[i]
          /\ cards'[Len(cards')].front = new_card_front
          /\ current_card_index' = Len(cards') - 1
          /\ current_side' = "front" ]_vars

\* new-card was pressed while the back side was being edited
C4_Witness ==
    /\ lastOp.name = "new_card"
    /\ Len(cards) = 2
    /\ current_card_index = 1
    /\ current_side = "front"
    /\ cards[1].back # << >>

\* C5: a switch to the other side s makes s the current side, keeps the
\* index and leaves the editor holding the stored text of side s.
C5_SwitchLoadsSide ==
    [][ (lastOp'.name = "switch_card_side" /\ lastOp'.arg # current_side) =>
          /\ current_side' = lastOp'.arg
          /\ current_card_index' = current_card_index
          /\ markdown_text' =
                side_text(cards'[current_card_index' + 1], lastOp'.arg) ]_vars

\* the switch to the back side has loaded a non-empty back text
C5_Witness ==
    /\ lastOp = Op("switch_card_side", "back")
    /\ current_side = "back"
    /\ cards[current_card_index + 1].back # << >>
    /\ markdown_text = cards[current_card_index + 1].back

\* C6: prev on the first card and next on the last card change nothing;
\* otherwise prev lowers and next raises the index by exactly 1.
C6_BoundedNavigation ==
    [][ /\ (lastOp'.name = "prev_card" /\ current_card_index = 0) =>
              UNCHANGED << cards, current_card_index, current_side, markdown_text >>
        /\ (lastOp'.name = "next_card" /\ current_card_index = Len(cards) - 1) =>
              UNCHANGED << cards, current_card_index, current_side, markdown_text >>
        /\ (lastOp'.name = "prev_card" /\ current_card_index > 0) =>
              current_card_index' = current_card_index - 1
        /\ (lastOp'.name = "next_card" /\ current_card_index < Len(cards) - 1) =>
              current_card_index' = current_card_index + 1 ]_vars

\* next was pressed on the last of several cards with an unsaved edit in
\* the editor, and nothing was stored
C6_Witness ==
    /\ lastOp.name = "next_card"
    /\ Len(cards) > 1
    /\ current_card_index = Len(cards) - 1
    /\ markdown_text \in TypedTexts
    /\ side_text(cards[current_card_index + 1], current_side) # strip(markdown_text)

\* C7: a title changes only in a save made on the front side, and only the
\* current card's, to the title extracted from the saved front text; a step
\* that starts on the back side changes no title.
C7_TitleOnlyOnFrontSave ==
    [][ \A i \in 1..Len(cards) :
          cards'[i].title # cards[i].title =>
              /\ lastOp'.name \in SavingOps
              /\ current_side = "front"
              /\ i = current_card_index + 1
              /\ cards'[i].title = extract_title(cards'[i].front) ]_vars

\* a back text with a heading was saved and the title is not that heading
C7_Witness ==
    /\ lastOp.name = "save_card"
    /\ current_side = "back"
    /\ cards[current_card_index + 1].back = << "#", " ", "A" >>
    /\ cards[current_card_index + 1].title # << "A" >>

\* C8: the card count never decreases and grows only by one, in new-card;
\* every record stays at its position: the records other than the current
\* one are unchanged and the current one keeps the text of its other side.
C8_NoDeleteNoReorder ==
    [][ /\ Len(cards') >= Len(cards)
        /\ Len(cards') # Len(cards) =>
              (lastOp'.name = "new_card" /\ Len(cards') = Len(cards) + 1)
        /\ \A i \in 1..Len(cards) :
              i # current_card_index + 1 => cards'[i] = cards[i]
        /\ side_text(cards'[current_card_index + 1], other_side(current_side))
              = side_text(cards[current_card_index + 1], other_side(current_side))
      ]_vars

\* a second card was appended behind a first card that had been edited
C8_Witness ==
    /\ lastOp.name = "new_card"
    /\ Len(cards) = 2
    /\ cards[1].front = << "b" >>
    /\ cards[2].front = new_card_front

\* C9: exactly one autosave callback is pending at all times; each run
\* saves the editor into the current side of the current card and leaves
\* one successor pending; with a fair event loop autosave runs again and
\* again.
C9_AutosaveForever ==
    /\ [](autosave_pending = 1)
    /\ [][ lastOp'.name = "autosave" =>
             /\ side_text(cards'[current_card_index + 1], current_side)
                   = strip(markdown_text)
             /\ autosave_pending' = 1 ]_vars
    /\ []<>(lastOp.name = "autosave")

\* autosave has run on an edited text and its successor is pending
C9_Witness ==
    /\ lastOp.name = "autosave"
    /\ autosave_pending = 1
    /\ markdown_text = << " ", "b", "\n" >>
    /\ side_text(cards[current_card_index + 1], current_side) = << "b" >>

\* the lines of the input that have the form "# " + at least one character
HeadingLines(s) ==
    { i \in 1..Len(split_lines(s)) :
        LET line == split_lines(s)[i]
        IN  Len(line) >= 3 /\ line[1] = "#" /\ line[2] = SP }

\* C10 as stated: for every line "# Heading" of the text, whatever the
\* other lines, the extracted title is exactly Heading.
C10_AnyHeadingLine ==
    exPc = "done" =>
        \A i \in HeadingLines(exIn) :
            exTitle = SubSeq(split_lines(exIn)[i], 3, Len(split_lines(exIn)[i]))

\* C10 amended: the extracted title is the whitespace-stripped Heading of
\* the first line of the form "# Heading", whatever the other lines.
C10_FirstHeadingLine ==
    exPc = "done" =>
        \A i \in HeadingLines(exIn) :
            (\A j \in HeadingLines(exIn) : i <= j) =>
                exTitle = strip(SubSeq(split_lines(exIn)[i], 3,
                                       Len(split_lines(exIn)[i])))

\* a text with two different heading lines behind a line that is no heading
C10_Witness ==
    /\ exPc = "done"
    /\ exIn = << "#", "a", "\n", "#", " ", "a", "\n", "#", " ", "b", " " >>
    /\ exTitle = << "a" >>

\* no line of the text begins with "# "
NoHeadingPrefixLine(s) ==
    \A i \in 1..Len(split_lines(s)) :
        ~ starts_at(split_lines(s)[i], 1, HeadingPrefix)

\* C11: for every text without a line that begins with "# ", title
\* extraction returns the default "Untitled Card".
C11_DefaultTitle ==
    (exPc = "done" /\ NoHeadingPrefixLine(exIn)) => exTitle = UntitledCard

\* a text whose lines hold "# a" behind a blank and "#a", but never "# " at
\* their start
C11_Witness ==
    /\ exPc = "done"
    /\ exIn = << " ", "#", " ", "a", "\n", "#", "a", "\n", "b" >>
    /\ exTitle = UntitledCard

\* the text a document function works on: the widget's text for the
\* preview, the saved text of the edited side for the two exports
doc_raw ==
    IF exPc = "update_preview"
    THEN widget_get(exIn)
    ELSE side_text(doc_card, docSide)

\* C12: for a side text made of the heading line "# t", a body and the line
\* "Tags: g" with blank lines between them, the preview and the PDF export
\* find the title t and the tags g (without surrounding whitespace) and
\* their body, once the two lines and the surrounding blank lines are gone,
\* is exactly the original body.
C12_CardTextParts ==
    \A t \in CardHeadings, body \in CardBodies, g \in CardTags :
        (exPc \in { "update_preview", "generate_pdf" }
           /\ exIn = card_text(t, body, g)) =>
            /\ docOut.title = strip(t)
            /\ docOut.tags = strip(g)
            /\ docOut.body = body

\* the line of s from which the title is extracted, if there is one
TitleLines(s) ==
    LET ls == split_lines(s)
        hs == { i \in 1..Len(ls) :
                  Len(ls[i]) >= 3 /\ starts_at(ls[i], 1, HeadingPrefix) }
    IN  { ls[i] : i \in { h \in hs : \A k \in hs : h <= k } }

\* the line of s from which the tags are extracted, if there is one
TagsLines(s) ==
    LET ls == split_lines(s)
        hs == { i \in 1..Len(ls) :
                  Len(ls[i]) >= 7 /\ starts_at(ls[i], 1, TagsPrefix) }
    IN  { ls[i] : i \in { h \in hs : \A k \in hs : h <= k } }

\* some line of body is the given line, whitespace at the ends aside
HasLine(body, line) ==
    \E i \in 1..Len(split_lines(body)) :
        strip(split_lines(body)[i]) = strip(line)

\* C13: for every raw side text, the body that the preview, the PDF export
\* and the markdown export produce contains neither the line the title was
\* extracted from nor the line the tags were extracted from.
C13_BodyWithoutTitleAndTags ==
    exPc \in { "update_preview", "generate_pdf", "export_markdown" } =>
        /\ \A line \in TitleLines(doc_raw) : ~ HasLine(docOut.body, line)
        /\ \A line \in TagsLines(doc_raw) : ~ HasLine(docOut.body, line)

\* C14: title extraction and tags extraction applied to the text of the
\* markdown export return the title and the tags of the card's front text.
C14_MarkdownRoundTrip ==
    exPc = "export_markdown" =>
        /\ extract_title(docOut.text) = extract_title(doc_card.front)
        /\ extract_tags(docOut.text) = extract_tags(doc_card.front)

\* the body export_markdown writes for the front and for the back of a card
md_front_body(card) ==
    LET title == extract_title(card.front)
    IN  strip(markdown_clean(card.front, title, title # UntitledCard,
                             extract_tags(card.front)))

md_back_body(card) ==
    LET back == strip(card.back)
        title == extract_title(back)
    IN  strip(markdown_clean(back, title, title = extract_title(card.front),
                             extract_tags(back)))

\* C15: the exported markdown text begins with "# <front title>", then the
\* front body, then "Tags: <front tags>"; what follows is a "## Back Side"
\* section with the back body and, when the back has tags, its tags line,
\* if the back text is not empty after stripping, and nothing otherwise.
C15_MarkdownLayout ==
    exPc = "export_markdown" =>
        LET card == doc_card
            text == docOut.text
            front_part ==
                HeadingPrefix \o extract_title(card.front) \o << NL, NL >>
                  \o md_front_body(card) \o << NL, NL >>
                  \o TagsPrefix \o extract_tags(card.front) \o << NL >>
            rest == SubSeq(text, Len(front_part) + 1, Len(text))
            section == << NL >> \o BackSideHeading \o << NL, NL >>
                         \o md_back_body(card) \o << NL >>
            back_tags == extract_tags(strip(card.back))
        IN  /\ starts_at(text, 1, front_part)
            /\ (strip(card.back) # << >>) <=> (rest # << >>)
            /\ rest # << >> =>
                  /\ starts_at(rest, 1, section)
                  /\ IF back_tags # << >>
                     THEN rest = section \o << NL >> \o TagsPrefix \o back_tags
                     ELSE rest = section

\* a card with a title, tags and a back that has tags of its own was exported
C15_Witness ==
    /\ exPc = "export_markdown"
    /\ docSide = "front"
    /\ exIn = << "#", " ", "a", "\n", "b", "\n", "T", "a", "g", "s", ":", " ", "x" >>
    /\ docOther = << "T", "a", "g", "s", ":", " ", "y" >>
    /\ docOut.text =
          << "#", " ", "a", "\n", "\n", "b", "\n", "\n",
             "T", "a", "g", "s", ":", " ", "x", "\n", "\n" >>
            \o BackSideHeading
            \o << "\n", "\n", "\n", "\n", "T", "a", "g", "s", ":", " ", "y" >>

\* C16: the exported markdown text contains the heading line of the front
\* title exactly once.
C16_TitleOnce ==
    exPc = "export_markdown" =>
        LET ls == split_lines(docOut.text)
            heading == HeadingPrefix \o extract_title(doc_card.front)
        IN  Cardinality({ i \in 1..Len(ls) : ls[i] = heading }) = 1

\* C17: the PDF's element sequence holds exactly one page break when the
\* back text is not empty after stripping and none otherwise; the elements
\* of the front come before the page break and those of the back (its own
\* title, body and tags) come after it.
C17_PageBreak ==
    exPc = "generate_pdf" =>
        LET card == doc_card
            els == docOut.elements
            breaks == { i \in 1..Len(els) : els[i] = PageBreak }
        IN  \E show \in BOOLEAN :
               LET front_elements == pdf_side_elements(card.front, "F", show)
                   back_elements == pdf_side_elements(strip(card.back), "B", show)
               IN  IF strip(card.back) # << >>
                   THEN /\ Cardinality(breaks) = 1
                        /\ els = front_elements \o << PageBreak >> \o back_elements
                   ELSE /\ breaks = {}
                        /\ els = front_elements

\* a card with a heading on each side was exported: the break stands
\* between the front's title and the back's title
C17_Witness ==
    /\ exPc = "generate_pdf"
    /\ docSide = "back"
    /\ docOther = << "#", " ", "a", "\n", "b" >>
    /\ exIn = << "#", " ", "b", " ", "\n", "b" >>
    /\ \E i \in 2..(Len(docOut.elements) - 1) :
          /\ docOut.elements[i] = PageBreak
          /\ \E j \in 1..(i - 1) :
                docOut.elements[j] = Paragraph(<< "a" >>, "title")
          /\ \E j \in (i + 1)..Len(docOut.elements) :
                docOut.elements[j] = Paragraph(<< "b" >>, "title")

\* the two physical dimensions of a card size, in inches
CardInches(size) ==
    IF size = "3x5" THEN { 3, 5 }
    ELSE IF size = "4x6" THEN { 4, 6 }
    ELSE { 5, 7 }

\* C18: for every card size and orientation the two dimensions of the PDF
\* page are the card's two dimensions in inches, the height being the
\* larger one in portrait and the width the larger one in landscape.
C18_PdfPageSize ==
    (lastOp.name = "generate_pdf" /\ pdf_page.written) =>
        /\ { pdf_page.width, pdf_page.height }
              = { d * inch : d \in CardInches(card_size) }
        /\ card_orientation = "portrait" => pdf_page.height >= pdf_page.width
        /\ card_orientation = "landscape" => pdf_page.width >= pdf_page.height

\* the ratio height : width the rectangle is to have, as << height, width >>
StatedRatio(size, orientation) ==
    LET tall == IF size = "3x5" THEN << 5, 3 >>
                ELSE IF size = "4x6" THEN << 6, 4 >>
                ELSE << 7, 5 >>
    IN  IF orientation = "portrait" THEN tall ELSE << tall[2], tall[1] >>

\* the step redraws the preview
RedrawStep ==
    \/ lastOp'.name \in { "update_preview", "save_settings_dialog" }
    \/ lastOp'.name = "switch_orientation" /\ lastOp'.arg # card_orientation

\* C19: for every canvas size the rectangle drawn has height / width equal,
\* up to the truncation to integers, to 5/3, 6/4 or 7/5 (by card size) in
\* portrait and to the inverse in landscape, and it is centred in the canvas.
C19_PreviewRatio ==
    [][ (RedrawStep /\ preview'.drawn) =>
          LET r == StatedRatio(card_size', card_orientation')
              w == preview'.card_width
              h == preview'.card_height
              right == canvas_size'[1] - w - preview'.x_offset
              below == canvas_size'[2] - h - preview'.y_offset
          IN  /\ h = (w * r[1]) \div r[2] \/ w = (h * r[2]) \div r[1]
              /\ right - preview'.x_offset \in { 0, 1 }
              /\ below - preview'.y_offset \in { 0, 1 } ]_vars

preview_source(text, side) == [ markdown_content |-> text, current_side |-> side ]

\* a step of a handler the claim C21 is about, past the handler's guard: a
\* keystroke, a new card, a confirmed dialog, or a move to another card, side
\* or orientation
RedrawingStep ==
    \/ lastOp'.name \in { "on_text_change", "new_card", "save_settings_dialog" }
    \/ lastOp'.name \in { "prev_card", "next_card" }
          /\ current_card_index' # current_card_index
    \/ lastOp'.name = "switch_card_side" /\ current_side' # current_side
    \/ lastOp'.name = "switch_orientation" /\ card_orientation' # card_orientation

\* C21: every keystroke, every settings change and every navigation operation
\* (new-card, prev, next, side-switch) ends with the preview drawn from the
\* state the handler leaves: from the editor text and the side, and, for a
\* settings change on a sized canvas, with the rectangle of the new settings.
C21_RedrawAfterHandler ==
    [][ RedrawingStep =>
          /\ previewed' = preview_source(markdown_text', current_side')
          /\ (lastOp'.name \in { "switch_orientation", "save_settings_dialog" }
               /\ canvas_size' # Unsized)
              => preview' = preview_rectangle(card_size', card_orientation',
                                              canvas_size') ]_vars

\* the file holds a JSON object of exactly the seven keys, each with the
\* value the setting has in memory
FileHoldsSettings ==
    /\ config_file.kind = "object"
    /\ DOMAIN config_file.object = SettingKeys
    /\ config_file.object.content_font_size = content_font_size
    /\ config_file.object.title_font_size = title_font_size
    /\ config_file.object.tags_font_size = tags_font_size
    /\ config_file.object.card_theme = card_theme
    /\ config_file.object.card_orientation = card_orientation
    /\ config_file.object.card_size = card_size
    /\ config_file.object.show_side_indicator = show_side_indicator

C23_LoadSettings ==
    [][ lastOp'.name = "load_settings" =>
          LET object == IF config_file.kind = "object"
                        THEN config_file.object
                        ELSE << >>
              has(key) == config_file.kind = "object" /\ key \in DOMAIN object
          IN  /\ settings_loaded'
              /\ content_font_size' =
                    IF has("content_font_size") THEN object.content_font_size ELSE 12
              /\ title_font_size' =
                    IF has("title_font_size") THEN object.title_font_size ELSE 16
              /\ tags_font_size' =
                    IF has("tags_font_size") THEN object.tags_font_size ELSE 10
              /\ card_theme' =
                    IF has("card_theme") THEN object.card_theme ELSE "light"
              /\ card_orientation' =
                    IF has("card_orientation") THEN object.card_orientation
                    ELSE "portrait"
              /\ card_size' =
                    IF has("card_size") THEN object.card_size ELSE "3x5"
              /\ show_side_indicator' =
                    IF has("show_side_indicator") THEN object.show_side_indicator
                    ELSE FALSE ]_vars

\* a file with the key tags_font_size missing has been loaded
C23_Witness ==
    /\ lastOp = Op("load_settings", "")
    /\ config_file.kind = "object"
    /\ DOMAIN config_file.object = SettingKeys \ { "tags_font_size" }
    /\ tags_font_size = 10
    /\ content_font_size = 20
    /\ card_size = "4x6"

\* the stripped editor text, as a save stores it
stored_text == strip(widget_get(markdown_text))

squeeze(s) ==
    LET keep(c) == c \notin Whitespace
    IN  SelectSeq(s, keep)

\* sub occurs in s
contains(s, sub) ==
    \E p \in 1..(Len(s) - Len(sub) + 1) : starts_at(s, p, sub)

\* the text a PDF paragraph shows: its text without the markup tags
RECURSIVE without_all(_, _)
without_all(s, old) ==
    IF contains(s, old) THEN without_all(replace_first(s, old), old) ELSE s

PdfTags ==
    << << "<", "b", ">" >>, << "<", "/", "b", ">" >>,
       << "<", "i", ">" >>, << "<", "/", "i", ">" >>,
       << "<", "c", "o", "d", "e", ">" >>, << "<", "/", "c", "o", "d", "e", ">" >> >>

RECURSIVE without_tags(_, _)
without_tags(s, k) ==
    IF k > Len(PdfTags) THEN s ELSE without_tags(without_all(s, PdfTags[k]), k + 1)

\* the body lines the preview shows for the editor text, blank ones left out
preview_body_lines ==
    LET lines == split_lines(preview_display(preview_content(widget_get(exIn))))
        shown(line) == squeeze(line) # << >>
    IN  SelectSeq(lines, shown)

\* the content paragraphs the PDF has for the side that is edited
pdf_body_paragraphs ==
    pdf_paragraphs(pdf_clean(side_text(doc_card, docSide)))

\* C25: every non-blank body line the preview shows for a side text is part
\* of what one of the PDF's content paragraphs for that side shows (markup
\* tags and whitespace apart).
C25_PreviewLinesInPdf ==
    exPc = "generate_pdf" =>
        \A i \in 1..Len(preview_body_lines) :
            \E k \in 1..Len(pdf_body_paragraphs) :
                contains(squeeze(without_tags(pdf_body_paragraphs[k].text, 1)),
                         squeeze(preview_body_lines[i]))

\* a step of new-card, or of prev, next or side-switch past its guard
NavigationStep ==
    \/ lastOp'.name = "new_card"
    \/ lastOp'.name \in { "prev_card", "next_card" }
          /\ current_card_index' # current_card_index
    \/ lastOp'.name = "switch_card_side" /\ current_side' # current_side

\* C26: after new-card, prev, next and side-switch the editor text is the
\* stored text of the current side of the current card, and a save taken
\* next changes no card record.
C26_EditorShowsCurrentSide ==
    [][ NavigationStep =>
          /\ markdown_text' =
                side_text(cards'[current_card_index' + 1], current_side')
          /\ save_current_side_content(St').cards = cards' ]_vars

\* C27: in every reachable state the stored title of each card is the title
\* that extract_title returns on the card's stored front text.
C27_TitleOfStoredFront ==
    \A i \in 1..Len(cards) : cards[i].title = extract_title(cards[i].front)

\* a front text without a heading has been saved into the first card, and a
\* second card has its default record
C27_Witness ==
    /\ Len(cards) = 2
    /\ cards[1].front = << "b" >>
    /\ cards[1].title = UntitledCard
    /\ cards[2].title = NewCardTitle
    /\ cards[2].front = new_card_front

\* the handlers that save and do nothing else to the cards: the explicit
\* save, the autosave callback and the key release
PlainSaves == { "save_card", "autosave", "on_text_change" }

\* C28: a save (explicit, autosave or keystroke) writes the field of the
\* current side of the current card, and that card's title when the side is
\* the front; the other side of the card, every other card, the index and
\* the side stay as they are.
C28_SaveFrame ==
    [][ lastOp'.name \in PlainSaves =>
          LET i == current_card_index + 1
          IN  /\ current_card_index' = current_card_index
              /\ current_side' = current_side
              /\ Len(cards') = Len(cards)
              /\ \A j \in 1..Len(cards) : j # i => cards'[j] = cards[j]
              /\ side_text(cards'[i], other_side(current_side))
                    = side_text(cards[i], other_side(current_side))
              /\ side_text(cards'[i], current_side) = strip(widget_get(markdown_text'))
              /\ current_side = "back" => cards'[i].title = cards[i].title ]_vars

\* the autosave has stored a typed text in the back of the first of two
\* cards and has left its front, its title and the second card alone
C28_Witness ==
    /\ lastOp = Op("autosave", "")
    /\ current_side = "back"
    /\ current_card_index = 0
    /\ Len(cards) = 2
    /\ cards[1].back = << "b" >>
    /\ cards[1].title # UntitledCard
    /\ cards[2].front = new_card_front

\* C29: from any reachable state, a switch to the other side and straight
\* back leaves the side and the index as they were, the editor with the
\* stripped text of the original side, which is also what is stored for it,
\* and the cards as one save alone leaves them; a switch to the side that is
\* current already changes nothing.
C29_SwitchThereAndBack ==
    LET there == switch_card_side(St, other_side(current_side))
        back == switch_card_side(there, current_side)
        saved == save_current_side_content(St)
    IN  /\ there.current_side = other_side(current_side)
        /\ back.current_side = current_side
        /\ back.current_card_index = current_card_index
        /\ back.markdown_text = strip(widget_get(markdown_text))
        /\ back.markdown_text
              = side_text(back.cards[current_card_index + 1], current_side)
        /\ back.cards = saved.cards
        /\ switch_card_side(St, current_side) = St

\* the front side has been left with the typed text " b" and a newline in
\* the editor and has been switched back to: the editor holds "b"
C29_Witness ==
    /\ lastOp = Op("switch_card_side", "front")
    /\ current_side = "front"
    /\ markdown_text = << "b" >>
    /\ cards[current_card_index + 1].front = << "b" >>
    /\ cards[current_card_index + 1].back = << >>

\* C30: for every card size and orientation the ratio width : height used
\* for the rectangle of the preview is the ratio width : height of the page
\* of the PDF written under the same settings.
C30_PreviewRatioIsPageRatio ==
    (lastOp.name = "generate_pdf" /\ pdf_page.written /\ preview.drawn) =>
        /\ preview.card_ratio = preview_card_ratio(card_size, card_orientation)
        /\ preview.card_ratio[1] * pdf_page.height
              = preview.card_ratio[2] * pdf_page.width
====
